---- MODULE Spec2Model ----
(***************************************************************************)
(* Model of ImageURLGenerator (src/image_url_generator.py) and of the      *)
(* module-level formatters of src/simple_demo.py.                          *)
(*                                                                         *)
(* Strings that the code splits on "/" are modelled by what split('/')     *)
(* gives: "/w/a.png" is <<"", "w", "a.png">>, "a.png" is <<"a.png">>,      *)
(* "/" is <<"", "">> and the empty string is <<"">>.  None is <<>>.        *)
(***************************************************************************)
EXTENDS Integers, Sequences, FiniteSets, TLC

VARIABLES
    cwd,            \* os.getcwd(): the process-wide working directory
    base_url,       \* self.base_url
    server,         \* self.server: index into servers, or NoServer
    server_thread,  \* self.server_thread: index of the thread's server, or NoThread
    servers,        \* every HTTPServer object this generator constructed, in order
    fs,             \* regular files: absolute path -> content
    last            \* the most recent event: a call with its arguments and outcome,
                    \* or the reclaiming of a server object

vars == <<cwd, base_url, server, server_thread, servers, fs, last>>

(***************************************************************************)
(* Bounds                                                                  *)
(***************************************************************************)
MaxServers == 2     \* HTTPServer objects constructed in one run
MaxLen == 3         \* bytes in a file whose content is drawn freely

(***************************************************************************)
(* posixpath                                                               *)
(***************************************************************************)
Last(s) == s[Len(s)]

isabs(p) == Len(p) >= 2 /\ p[1] = ""

\* posixpath.join(a, p) for two arguments
join(a, p) ==
    IF isabs(p) THEN p
    ELSE IF Last(a) = "" THEN SubSeq(a, 1, Len(a) - 1) \o p
    ELSE a \o p

RECURSIVE NormComps(_, _, _)
\* the loop of posixpath.normpath over comps, new_comps being acc
NormComps(comps, acc, initial_slashes) ==
    IF comps = <<>> THEN acc
    ELSE LET comp == Head(comps)
             rest == Tail(comps)
         IN  IF comp = "" \/ comp = "." THEN NormComps(rest, acc, initial_slashes)
             ELSE IF comp # ".."
                     \/ (~initial_slashes /\ acc = <<>>)
                     \/ (acc # <<>> /\ Last(acc) = "..")
                  THEN NormComps(rest, Append(acc, comp), initial_slashes)
             ELSE IF acc # <<>>
                  THEN NormComps(rest, SubSeq(acc, 1, Len(acc) - 1), initial_slashes)
             ELSE NormComps(rest, acc, initial_slashes)

normpath(p) ==
    IF p = <<"">> THEN <<".">>
    ELSE LET initial_slashes == isabs(p)
             new_comps == NormComps(p, <<>>, initial_slashes)
         IN  IF initial_slashes
             THEN (IF new_comps = <<>> THEN <<"", "">> ELSE <<"">> \o new_comps)
             ELSE (IF new_comps = <<>> THEN <<".">> ELSE new_comps)

\* os.path.abspath(p) with os.getcwd() = dir
abspath(p, dir) == normpath(IF isabs(p) THEN p ELSE join(dir, p))

basename(p) == Last(p)

NonEmpty(x) == x # ""

RECURSIVE CommonLen(_, _)
CommonLen(a, b) ==
    IF a = <<>> \/ b = <<>> \/ Head(a) # Head(b) THEN 0
    ELSE 1 + CommonLen(Tail(a), Tail(b))

Dots(n) == [k \in 1..n |-> ".."]

\* os.path.relpath(path, start) with os.getcwd() = dir
relpath(path, start, dir) ==
    LET start_list == SelectSeq(abspath(start, dir), NonEmpty)
        path_list == SelectSeq(abspath(path, dir), NonEmpty)
        i == CommonLen(start_list, path_list)
        rel_list == Dots(Len(start_list) - i) \o SubSeq(path_list, i + 1, Len(path_list))
    IN  IF rel_list = <<>> THEN <<".">> ELSE rel_list

(***************************************************************************)
(* The world outside the generator                                         *)
(***************************************************************************)
Home == <<"", "w">>                       \* the working directory at start-up
Dirs == {<<"", "">>, <<"", "w">>, <<"", "w", "images">>}
PngPath == <<"", "w", "a.png">>
JpgPath == <<"", "w", "images", "photo.jpg">>
BinPath == <<"", "w", "data.bin">>
SvgPath == <<"", "w", "drawing.svg">>
DotSvgPath == <<"", "w", ".svg">>        \* a file whose whole name is ".svg"
HtmlPath == <<"", "w", "page.html">>
NotesPath == <<"", "w", "notes.zz">>
BigPath == <<"", "w", "big.png">>        \* its data URL is longer than DisplayLen
QuotePath == <<"", "w", "it's.png">>
DQuotePath == <<"", "w", "a\"b.png">>
BackslashPath == <<"", "w", "a\\b.png">>
MarkupPath == <<"", "w", "a<b&c.png">>
InitialFiles ==
    (PngPath :> <<137, 80>>) @@ (JpgPath :> <<255, 216, 255>>) @@ (BinPath :> <<>>) @@
    (SvgPath :> <<60, 115>>) @@ (DotSvgPath :> <<60>>) @@ (HtmlPath :> <<60, 104>>) @@
    (NotesPath :> <<110>>) @@ (BigPath :> [i \in 1..60 |-> 77]) @@
    (QuotePath :> <<137>>) @@ (DQuotePath :> <<137>>) @@ (BackslashPath :> <<137>>) @@
    (MarkupPath :> <<137>>)

Ports == {8000, 8001, 8080}
ForeignPorts == {8080}                    \* held by another process throughout

ImagePaths ==
    {<<"a.png">>, PngPath, <<"images", "photo.jpg">>, JpgPath,
     <<"data.bin">>, <<"missing.gif">>}
MimePaths == {<<"drawing.svg">>, <<".svg">>, <<"page.html">>, <<"notes.zz">>}
DocPaths ==
    {<<"a.png">>, <<"big.png">>, <<"missing.gif">>, <<"it's.png">>, <<"a\"b.png">>,
     <<"a\\b.png">>, <<"a<b&c.png">>}
SomeImagePaths == {<<"a.png">>, JpgPath, <<"missing.gif">>}
Directories == {<<".">>, <<"images">>, <<"", "w">>, <<"nodir">>}
WebRoots == {<<>>, <<"">>, <<"", "w">>, <<"", "w", "images">>, <<"images">>}
OutputFiles == {<<"image_viewer.html">>}

\* a URL string: its scheme, its netloc and its path split on "/"
Url(scheme, netloc, path) == [scheme |-> scheme, netloc |-> netloc, path |-> path]
DefaultBaseUrl == Url("http", <<"localhost", ":", "8000">>, <<"">>)
SiteBaseUrl == Url("https", <<"mywebsite.com">>, <<"">>)
BaseUrls ==
    {DefaultBaseUrl, SiteBaseUrl,
     Url("http", <<"x">>, <<"", "">>),
     Url("https", <<"mywebsite.com">>, <<"", "imgs">>)}

\* str(port), as the f-string formats it
PortText == (8000 :> "8000") @@ (8001 :> "8001") @@ (8080 :> "8080")

\* the characters of the string literals the code concatenates
Chars ==
    "data:" :> <<"d", "a", "t", "a", ":">> @@
    ";base64," :> <<";", "b", "a", "s", "e", "6", "4", ",">> @@
    "image/jpeg" :> <<"i", "m", "a", "g", "e", "/", "j", "p", "e", "g">> @@
    "image/png" :> <<"i", "m", "a", "g", "e", "/", "p", "n", "g">> @@
    "image/gif" :> <<"i", "m", "a", "g", "e", "/", "g", "i", "f">> @@
    "image/svg+xml" :> <<"i", "m", "a", "g", "e", "/", "s", "v", "g", "+", "x", "m", "l">> @@
    "text/html" :> <<"t", "e", "x", "t", "/", "h", "t", "m", "l">> @@
    "application/octet-stream" :> <<"a", "p", "p", "l", "i", "c", "a", "t", "i", "o", "n", "/", "o", "c", "t", "e", "t", "-", "s", "t", "r", "e", "a", "m">> @@
    "..." :> <<".", ".", ".">>

(***************************************************************************)
(* urllib.parse.urljoin, for a base with scheme and netloc and a relative  *)
(* reference that is a bare path (no scheme, netloc, query or fragment)    *)
(***************************************************************************)
RECURSIVE Resolve(_, _)
\* the loop over segments, resolved_path being acc
Resolve(segments, acc) ==
    IF segments = <<>> THEN acc
    ELSE LET seg == Head(segments)
         IN  IF seg = ".."
             THEN Resolve(Tail(segments),
                          IF acc = <<>> THEN acc ELSE SubSeq(acc, 1, Len(acc) - 1))
             ELSE IF seg = "." THEN Resolve(Tail(segments), acc)
             ELSE Resolve(Tail(segments), Append(acc, seg))

urljoin(base, url) ==
    IF url = <<"">> THEN base
    ELSE LET bpath == base.path
             base_parts == IF Last(bpath) # "" THEN SubSeq(bpath, 1, Len(bpath) - 1)
                           ELSE bpath
             joined == base_parts \o url
             segments == IF isabs(url) THEN url
                         ELSE <<Head(joined)>>
                              \o SelectSeq(SubSeq(joined, 2, Len(joined) - 1), NonEmpty)
                              \o <<Last(joined)>>
             resolved == Resolve(segments, <<>>)
             resolved_path == IF Last(segments) \in {".", ".."}
                              THEN Append(resolved, "") ELSE resolved
             path == IF resolved_path \in {<<>>, <<"">>} THEN <<"", "">>
                     ELSE IF Head(resolved_path) # "" THEN <<"">> \o resolved_path
                     ELSE resolved_path
         IN  Url(base.scheme, base.netloc, path)

\* base_url + "/"
WithSlash(url) == Url(url.scheme, url.netloc, url.path \o <<"">>)

(***************************************************************************)
(* base64.b64encode                                                        *)
(***************************************************************************)
B64Alphabet == <<"A", "B", "C", "D", "E", "F", "G", "H", "I", "J", "K", "L", "M", "N", "O", "P", "Q", "R", "S", "T", "U", "V", "W", "X", "Y", "Z", "a", "b", "c", "d", "e", "f", "g", "h", "i", "j", "k", "l", "m", "n", "o", "p", "q", "r", "s", "t", "u", "v", "w", "x", "y", "z", "0", "1", "2", "3", "4", "5", "6", "7", "8", "9", "+", "/">>

B64Char(n) == B64Alphabet[n + 1]

RECURSIVE b64encode_whole_groups(_)
\* b64encode dropping the last one or two bytes that do not fill a group
b64encode_whole_groups(bytes) ==
    IF Len(bytes) < 3 THEN <<>>
    ELSE LET n == bytes[1] * 65536 + bytes[2] * 256 + bytes[3]
         IN  <<B64Char(n \div 262144), B64Char((n \div 4096) % 64),
               B64Char((n \div 64) % 64), B64Char(n % 64)>>
             \o b64encode_whole_groups(SubSeq(bytes, 4, Len(bytes)))

RECURSIVE b64encode(_)
b64encode(bytes) ==
    IF bytes = <<>> THEN <<>>
    ELSE IF Len(bytes) = 1
    THEN LET n == bytes[1] * 65536
         IN  <<B64Char(n \div 262144), B64Char((n \div 4096) % 64), "=", "=">>
    ELSE IF Len(bytes) = 2
    THEN LET n == bytes[1] * 65536 + bytes[2] * 256
         IN  <<B64Char(n \div 262144), B64Char((n \div 4096) % 64),
               B64Char((n \div 64) % 64), "=">>
    ELSE LET n == bytes[1] * 65536 + bytes[2] * 256 + bytes[3]
         IN  <<B64Char(n \div 262144), B64Char((n \div 4096) % 64),
               B64Char((n \div 64) % 64), B64Char(n % 64)>>
             \o b64encode(SubSeq(bytes, 4, Len(bytes)))

(***************************************************************************)
(* None ("" here) when the extension is not in the table                   *)
(***************************************************************************)
\* posixpath.splitext(name)[1]: from the last dot on, leading dots not counted
Suffix ==
    ("a.png" :> ".png") @@ ("photo.jpg" :> ".jpg") @@ ("data.bin" :> ".bin") @@
    ("missing.gif" :> ".gif") @@ ("drawing.svg" :> ".svg") @@ (".svg" :> "") @@
    ("page.html" :> ".html") @@ ("notes.zz" :> ".zz") @@ ("big.png" :> ".png") @@
    ("it's.png" :> ".png") @@ ("a\"b.png" :> ".png") @@ ("a\\b.png" :> ".png") @@
    ("a<b&c.png" :> ".png")
\* the names for which name.endswith('.svg')
EndsWithSvg == {"drawing.svg", ".svg"}
types_map ==
    (".png" :> "image/png") @@ (".jpg" :> "image/jpeg") @@ (".gif" :> "image/gif") @@
    (".svg" :> "image/svg+xml") @@
    (".bin" :> "application/octet-stream") @@ (".html" :> "text/html")
ImageTypes == {"image/png", "image/jpeg", "image/gif", "image/svg+xml"}

guess_type(image_path) ==
    LET ext == Suffix[basename(image_path)]
    IN  IF ext \in DOMAIN types_map THEN types_map[ext] ELSE ""

(***************************************************************************)
(* Outcomes of a call                                                      *)
(***************************************************************************)
Return(v) == [raised |-> "", value |-> v]
Raise(e) == [raised |-> e, value |-> <<>>]

NoServer == 0       \* self.server = None
NoThread == 0       \* self.server_thread = None

\* os.path.exists(p)
exists(p) == abspath(p, cwd) \in (DOMAIN fs) \cup Dirs

(***************************************************************************)
(* ImageURLGenerator: the formatters                                       *)
(***************************************************************************)
\* file_url without os.path.abspath
file_url_as_given(image_path) == Url("file", <<>>, image_path)

file_url(image_path) ==
    LET abs_path == abspath(image_path, cwd)
    IN  Url("file", <<>>, abs_path)

\* data_url falling back only when the lookup fails, as simple_demo does
data_url_any_type(image_path) ==
    IF ~exists(image_path) THEN Raise("FileNotFoundError")
    ELSE LET guessed == guess_type(image_path)
             mime_type == IF guessed = "" THEN "image/jpeg" ELSE guessed
             encoded_string == b64encode(fs[abspath(image_path, cwd)])
         IN  Return(Chars["data:"] \o Chars[mime_type] \o Chars[";base64,"]
                    \o encoded_string)

data_url(image_path) ==
    IF ~exists(image_path) THEN Raise("FileNotFoundError")
    ELSE LET guessed == guess_type(image_path)
             mime_type == IF guessed = "" \/ guessed \notin ImageTypes
                          THEN "image/jpeg" ELSE guessed
             encoded_string == b64encode(fs[abspath(image_path, cwd)])
         IN  Return(Chars["data:"] \o Chars[mime_type] \o Chars[";base64,"]
                    \o encoded_string)

\* web_url joining onto base_url without the "/" appended
web_url_no_slash(image_path, relative_to_webroot) ==
    LET rel_path == IF relative_to_webroot \notin {<<>>, <<"">>}
                    THEN relpath(image_path, relative_to_webroot, cwd)
                    ELSE <<basename(image_path)>>
    IN  urljoin(base_url, rel_path)

web_url(image_path, relative_to_webroot) ==
    LET rel_path == IF relative_to_webroot \notin {<<>>, <<"">>}
                    THEN relpath(image_path, relative_to_webroot, cwd)
                    ELSE <<basename(image_path)>>
    IN  urljoin(WithSlash(base_url), rel_path)

\* generate_all_urls leaving data_url out when it cannot be computed
generate_all_urls_partial(image_path) ==
    LET data == data_url(image_path)
    IN  IF data.raised # ""
        THEN Return([file_url |-> file_url(image_path),
                     web_url |-> web_url(image_path, <<>>)])
        ELSE Return([file_url |-> file_url(image_path),
                     data_url |-> data.value,
                     web_url |-> web_url(image_path, <<>>)])

generate_all_urls(image_path) ==
    LET data == data_url(image_path)
    IN  IF data.raised # "" THEN data
        ELSE Return([file_url |-> file_url(image_path),
                     data_url |-> data.value,
                     web_url |-> web_url(image_path, <<>>)])

(***************************************************************************)
(* simple_demo.py: the module-level formatters                             *)
(***************************************************************************)
simple_data_url(image_path) ==
    IF ~exists(image_path) THEN Raise("FileNotFoundError")
    ELSE LET guessed == guess_type(image_path)
             mime_type == IF guessed # "" THEN guessed
                          ELSE IF basename(image_path) \in EndsWithSvg
                               THEN "image/svg+xml"
                               ELSE "application/octet-stream"
             encoded_string == b64encode(fs[abspath(image_path, cwd)])
         IN  Return(Chars["data:"] \o Chars[mime_type] \o Chars[";base64,"]
                    \o encoded_string)

simple_web_url(image_path, base) ==
    LET rel_path == <<basename(image_path)>>
    IN  urljoin(WithSlash(base), rel_path)

(***************************************************************************)
(* The viewer document                                                     *)
(***************************************************************************)
DisplayLen == 100

Take(s, n) == SubSeq(s, 1, IF Len(s) < n THEN Len(s) ELSE n)

\* html_content passing the displayed part of the data URL to the copy action
html_content_short_copy(image_path, urls) ==
    [title     |-> basename(image_path),
     heading   |-> basename(image_path),
     img_src   |-> urls.data_url,
     img_alt   |-> basename(image_path),
     file_text |-> urls.file_url,
     file_copy |-> urls.file_url,
     web_text  |-> urls.web_url,
     web_copy  |-> urls.web_url,
     data_text |-> Take(urls.data_url, DisplayLen) \o Chars["..."],
     data_copy |-> Take(urls.data_url, DisplayLen)]

html_content(image_path, urls) ==
    [title     |-> basename(image_path),
     heading   |-> basename(image_path),
     img_src   |-> urls.data_url,
     img_alt   |-> basename(image_path),
     file_text |-> urls.file_url,
     file_copy |-> urls.file_url,
     web_text  |-> urls.web_url,
     web_copy  |-> urls.web_url,
     data_text |-> Take(urls.data_url, DisplayLen) \o Chars["..."],
     data_copy |-> urls.data_url]

\* a name as the pieces of its text, each of ' " \ < & a piece of its own
NamePieces ==
    ("it's.png" :> <<"it", "'", "s.png">>) @@ ("a\"b.png" :> <<"a", "\"", "b.png">>) @@
    ("a\\b.png" :> <<"a", "\\", "b.png">>) @@
    ("a<b&c.png" :> <<"a", "<", "b", "&", "c.png">>)

Pieces(name) == IF name \in DOMAIN NamePieces THEN NamePieces[name] ELSE <<name>>

RECURSIVE PathText(_)
\* the text of a path: its parts with "/" between them
PathText(parts) ==
    IF parts = <<>> THEN <<>>
    ELSE IF Len(parts) = 1 THEN Pieces(Head(parts))
    ELSE Pieces(Head(parts)) \o <<"/">> \o PathText(Tail(parts))

\* the text of a URL, as an f-string interpolates it
Str(url) == <<url.scheme, "://">> \o url.netloc \o PathText(url.path)

RECURSIVE replace(_, _, _)
\* str.replace(old, new) for a one-character old
replace(text, old, new) ==
    IF text = <<>> THEN <<>>
    ELSE (IF Head(text) = old THEN new ELSE <<Head(text)>>)
             \o replace(Tail(text), old, new)

\* simple_demo's document: the copy arguments of the file URL and of the data
\* URL have each ' replaced by \', the one of the web URL has not
simple_html_content(image_path, file_url_val, data_url_val, web_url_val) ==
    [title     |-> basename(image_path),
     heading   |-> basename(image_path),
     img_src   |-> data_url_val,
     img_alt   |-> basename(image_path),
     file_text |-> file_url_val,
     file_copy |-> replace(Str(file_url_val), "'", <<"\\", "'">>),
     web_text  |-> web_url_val,
     web_copy  |-> web_url_val,
     data_text |-> Take(data_url_val, DisplayLen) \o Chars["..."],
     data_copy |-> replace(data_url_val, "'", <<"\\", "'">>)]

(***************************************************************************)
(* The listener sockets                                                    *)
(***************************************************************************)
\* a socket of this generator is bound to the port: the loop is serving, or
\* shutdown() ended the loop and the server object is not reclaimed yet
SocketOpen(s) == servers[s].state \in {"serving", "stopped"}

PortBusy(port) ==
    \/ port \in ForeignPorts
    \/ \E s \in DOMAIN servers : SocketOpen(s) /\ servers[s].port = port

Call(op, path, aux, port, outcome, printed) ==
    [op |-> op, path |-> path, aux |-> aux, port |-> port,
     raised |-> outcome.raised, value |-> outcome.value, printed |-> printed]

LocalUrl(port) == Url("http", <<"localhost", ":", PortText[port]>>, <<"">>)

(***************************************************************************)
(* Actions                                                                 *)
(***************************************************************************)
InitWith(dir, url, files) ==
    /\ cwd = dir
    /\ base_url = url
    /\ server = NoServer
    /\ server_thread = NoThread
    /\ servers = <<>>
    /\ fs = files
    /\ last = Call("__init__", <<>>, <<>>, 0, Return(<<>>), "")

\* a generator constructed with the default or with a site's base_url
Init == \E url \in {DefaultBaseUrl, SiteBaseUrl} : InitWith(Home, url, InitialFiles)

\* start_local_server assigning self.base_url before the server is constructed
start_local_server_url_first(directory, port) ==
    LET target == abspath(directory, cwd)
    IN  IF target \notin Dirs
        THEN /\ last' = Call("start_local_server", directory, <<>>, port,
                             Raise("FileNotFoundError"), "")
             /\ UNCHANGED <<cwd, base_url, server, server_thread, servers, fs>>
        ELSE IF PortBusy(port)
        THEN /\ cwd' = target
             /\ base_url' = LocalUrl(port)
             /\ last' = Call("start_local_server", directory, <<>>, port,
                             Raise("OSError"), "")
             /\ UNCHANGED <<server, server_thread, servers, fs>>
        ELSE /\ Len(servers) < MaxServers
             /\ cwd' = target
             /\ servers' = Append(servers, [port |-> port, state |-> "serving"])
             /\ server' = Len(servers) + 1
             /\ server_thread' = Len(servers) + 1
             /\ base_url' = LocalUrl(port)
             /\ last' = Call("start_local_server", directory, <<>>, port,
                             Return(LocalUrl(port)), "Local server started")
             /\ UNCHANGED fs

\* start_local_server constructing the server before os.chdir
start_local_server_binds_first(directory, port) ==
    LET target == abspath(directory, cwd)
    IN  IF PortBusy(port)
        THEN /\ last' = Call("start_local_server", directory, <<>>, port,
                             Raise("OSError"), "")
             /\ UNCHANGED <<cwd, base_url, server, server_thread, servers, fs>>
        ELSE IF target \notin Dirs
        THEN /\ last' = Call("start_local_server", directory, <<>>, port,
                             Raise("FileNotFoundError"), "")
             /\ UNCHANGED <<cwd, base_url, server, server_thread, servers, fs>>
        ELSE /\ Len(servers) < MaxServers
             /\ cwd' = target
             /\ servers' = Append(servers, [port |-> port, state |-> "serving"])
             /\ server' = Len(servers) + 1
             /\ server_thread' = Len(servers) + 1
             /\ base_url' = LocalUrl(port)
             /\ last' = Call("start_local_server", directory, <<>>, port,
                             Return(LocalUrl(port)), "Local server started")
             /\ UNCHANGED fs

start_local_server(directory, port) ==
    LET target == abspath(directory, cwd)
    IN  IF target \notin Dirs
        THEN \* os.chdir raises
             /\ last' = Call("start_local_server", directory, <<>>, port,
                             Raise("FileNotFoundError"), "")
             /\ UNCHANGED <<cwd, base_url, server, server_thread, servers, fs>>
        ELSE IF PortBusy(port)
        THEN \* HTTPServer(...) raises: the bind fails, after the chdir
             /\ cwd' = target
             /\ last' = Call("start_local_server", directory, <<>>, port,
                             Raise("OSError"), "")
             /\ UNCHANGED <<base_url, server, server_thread, servers, fs>>
        ELSE /\ Len(servers) < MaxServers
             /\ cwd' = target
             /\ servers' = Append(servers, [port |-> port, state |-> "serving"])
             /\ server' = Len(servers) + 1
             /\ server_thread' = Len(servers) + 1
             /\ base_url' = LocalUrl(port)
             /\ last' = Call("start_local_server", directory, <<>>, port,
                             Return(LocalUrl(port)), "Local server started")
             /\ UNCHANGED fs

\* stop_local_server going back to the start-up directory
stop_local_server_restores_cwd ==
    IF server # NoServer
    THEN /\ servers' = [servers EXCEPT ![server].state = "stopped"]
         /\ server' = NoServer
         /\ cwd' = Home
         /\ last' = Call("stop_local_server", <<>>, <<>>, 0, Return(<<>>),
                         "Local server stopped")
         /\ UNCHANGED <<base_url, server_thread, fs>>
    ELSE /\ last' = Call("stop_local_server", <<>>, <<>>, 0, Return(<<>>), "")
         /\ UNCHANGED <<cwd, base_url, server, server_thread, servers, fs>>

\* stop_local_server without its "if self.server:" guard
stop_local_server_unguarded ==
    IF server # NoServer
    THEN /\ servers' = [servers EXCEPT ![server].state = "stopped"]
         /\ server' = NoServer
         /\ last' = Call("stop_local_server", <<>>, <<>>, 0, Return(<<>>),
                         "Local server stopped")
         /\ UNCHANGED <<cwd, base_url, server_thread, fs>>
    ELSE /\ last' = Call("stop_local_server", <<>>, <<>>, 0, Raise("AttributeError"), "")
         /\ UNCHANGED <<cwd, base_url, server, server_thread, servers, fs>>

stop_local_server ==
    IF server # NoServer
    THEN /\ servers' = [servers EXCEPT ![server].state = "stopped"]
         /\ server' = NoServer
         /\ last' = Call("stop_local_server", <<>>, <<>>, 0, Return(<<>>),
                         "Local server stopped")
         /\ UNCHANGED <<cwd, base_url, server_thread, fs>>
    ELSE /\ last' = Call("stop_local_server", <<>>, <<>>, 0, Return(<<>>), "")
         /\ UNCHANGED <<cwd, base_url, server, server_thread, servers, fs>>

\* The code never calls server_close(): the listening socket is closed only
\* when the HTTPServer object is reclaimed, after the handle is dropped and
\* the thread that ran serve_forever has unwound.
ReclaimServer(s) ==
    /\ servers[s].state = "stopped"
    /\ server # s
    /\ servers' = [servers EXCEPT ![s].state = "closed"]
    /\ last' = Call("reclaim", <<>>, <<>>, servers[s].port, Return(<<>>), "")
    /\ UNCHANGED <<cwd, base_url, server, server_thread, fs>>

\* what a client that connects to localhost:port meets
ConnectResult(port) ==
    IF \E s \in DOMAIN servers : servers[s].state = "serving" /\ servers[s].port = port
    THEN "served"
    ELSE IF PortBusy(port) THEN "connected"
    ELSE "refused"

Connect(port) ==
    /\ last' = Call("connect", <<>>, <<>>, port, Return(ConnectResult(port)), "")
    /\ UNCHANGED <<cwd, base_url, server, server_thread, servers, fs>>

call_file_url(image_path) ==
    /\ last' = Call("file_url", image_path, <<>>, 0, Return(file_url(image_path)), "")
    /\ UNCHANGED <<cwd, base_url, server, server_thread, servers, fs>>

call_data_url(image_path) ==
    /\ last' = Call("data_url", image_path, <<>>, 0, data_url(image_path), "")
    /\ UNCHANGED <<cwd, base_url, server, server_thread, servers, fs>>

call_web_url(image_path, relative_to_webroot) ==
    /\ last' = Call("web_url", image_path, relative_to_webroot, 0,
                    Return(web_url(image_path, relative_to_webroot)), "")
    /\ UNCHANGED <<cwd, base_url, server, server_thread, servers, fs>>

call_generate_all_urls(image_path) ==
    /\ last' = Call("generate_all_urls", image_path, <<>>, 0,
                    generate_all_urls(image_path), "")
    /\ UNCHANGED <<cwd, base_url, server, server_thread, servers, fs>>

\* create_html_viewer opening and writing output_file before data_url has
\* been computed
create_html_viewer_writes_first(image_path, output_file) ==
    LET urls == generate_all_urls(image_path)
        known == [file_url |-> file_url(image_path),
                  data_url |-> IF urls.raised = "" THEN urls.value.data_url ELSE <<>>,
                  web_url |-> web_url(image_path, <<>>)]
    IN  /\ fs' = [p \in (DOMAIN fs) \cup {abspath(output_file, cwd)} |->
                     IF p = abspath(output_file, cwd)
                     THEN html_content(image_path, known)
                     ELSE fs[p]]
        /\ last' = Call("create_html_viewer", image_path, output_file, 0,
                        IF urls.raised # "" THEN urls
                        ELSE Return(abspath(output_file, cwd)), "")
        /\ UNCHANGED <<cwd, base_url, server, server_thread, servers>>

create_html_viewer(image_path, output_file) ==
    LET urls == generate_all_urls(image_path)
    IN  IF urls.raised # ""
        THEN /\ last' = Call("create_html_viewer", image_path, output_file, 0, urls, "")
             /\ UNCHANGED <<cwd, base_url, server, server_thread, servers, fs>>
        ELSE /\ fs' = [p \in (DOMAIN fs) \cup {abspath(output_file, cwd)} |->
                          IF p = abspath(output_file, cwd)
                          THEN html_content(image_path, urls.value)
                          ELSE fs[p]]
             /\ last' = Call("create_html_viewer", image_path, output_file, 0,
                             Return(abspath(output_file, cwd)), "")
             /\ UNCHANGED <<cwd, base_url, server, server_thread, servers>>

simple_create_html_viewer(image_path, output_file) ==
    LET file_url_val == file_url(image_path)
        data == simple_data_url(image_path)
        web_url_val == simple_web_url(image_path, DefaultBaseUrl)
    IN  IF data.raised # ""
        THEN /\ last' = Call("simple_demo.create_html_viewer", image_path, output_file,
                             0, data, "")
             /\ UNCHANGED <<cwd, base_url, server, server_thread, servers, fs>>
        ELSE /\ fs' = [p \in (DOMAIN fs) \cup {abspath(output_file, cwd)} |->
                          IF p = abspath(output_file, cwd)
                          THEN simple_html_content(image_path, file_url_val,
                                                   data.value, web_url_val)
                          ELSE fs[p]]
             /\ last' = Call("simple_demo.create_html_viewer", image_path, output_file,
                             0, Return(abspath(output_file, cwd)), "")
             /\ UNCHANGED <<cwd, base_url, server, server_thread, servers>>

call_simple_data_url(image_path) ==
    /\ last' = Call("simple_demo.data_url", image_path, <<>>, 0,
                    simple_data_url(image_path), "")
    /\ UNCHANGED <<cwd, base_url, server, server_thread, servers, fs>>

call_simple_web_url(image_path) ==
    /\ last' = Call("simple_demo.web_url", image_path, <<>>, 0,
                    Return(simple_web_url(image_path, DefaultBaseUrl)), "")
    /\ UNCHANGED <<cwd, base_url, server, server_thread, servers, fs>>

(***************************************************************************)
(* Spec: the server's life cycle, with the formatters called in between    *)
(***************************************************************************)
Next ==
    \/ \E directory \in Directories, port \in Ports : start_local_server(directory, port)
    \/ stop_local_server
    \/ \E s \in DOMAIN servers : ReclaimServer(s)
    \/ \E port \in Ports : Connect(port)
    \/ \E image_path \in SomeImagePaths : call_file_url(image_path)
    \/ \E image_path \in SomeImagePaths : call_data_url(image_path)
    \/ \E image_path \in SomeImagePaths, root \in {<<>>, Home} :
           call_web_url(image_path, root)
    \/ \E image_path \in SomeImagePaths : call_generate_all_urls(image_path)

Spec == Init /\ [][Next]_vars

(***************************************************************************)
(* ViewerSpec: create_html_viewer around one start and stop of the server  *)
(***************************************************************************)
NextViewer ==
    \/ \E image_path \in SomeImagePaths, output_file \in OutputFiles :
           create_html_viewer(image_path, output_file)
    \/ \E directory \in {<<"images">>, Home}, port \in {8000, 8001} :
           start_local_server(directory, port)
    \/ stop_local_server

ViewerSpec == Init /\ [][NextViewer]_vars

(***************************************************************************)
(* DocSpec: the documents of both create_html_viewer, for a small image,   *)
(* one whose data URL is longer than the displayed part, a missing one and *)
(* names with ' " \ < &                                                    *)
(***************************************************************************)
NextDoc ==
    \/ \E image_path \in DocPaths, output_file \in OutputFiles :
           create_html_viewer(image_path, output_file)
    \/ \E image_path \in DocPaths :
           simple_create_html_viewer(image_path, <<"simple_viewer.html">>)

DocSpec == Init /\ [][NextDoc]_vars

(***************************************************************************)
(* UrlSpec: the path and URL formatters as functions of their arguments,   *)
(* the working directory and base_url                                      *)
(***************************************************************************)
InitUrls ==
    \E dir \in Dirs, url \in BaseUrls \cup {LocalUrl(8001)} :
        InitWith(dir, url, InitialFiles)

NextUrls ==
    \/ \E image_path \in ImagePaths : call_file_url(image_path)
    \/ \E image_path \in ImagePaths, root \in WebRoots : call_web_url(image_path, root)
    \/ \E image_path \in ImagePaths : call_simple_web_url(image_path)

UrlSpec == InitUrls /\ [][NextUrls]_vars

(***************************************************************************)
(* DataSpec: data_url over every content of a.png up to MaxLen bytes       *)
(***************************************************************************)
ByteValues == {0, 77, 255}
Contents == UNION {[1..n -> ByteValues] : n \in 0..MaxLen}

InitData ==
    \E bytes \in Contents :
        InitWith(Home, DefaultBaseUrl, (PngPath :> bytes) @@ InitialFiles)

NextData ==
    \/ \E image_path \in ImagePaths \cup MimePaths : call_data_url(image_path)
    \/ \E image_path \in ImagePaths \cup MimePaths : call_simple_data_url(image_path)

DataSpec == InitData /\ [][NextData]_vars

(***************************************************************************)
(* Properties                                                              *)
(***************************************************************************)
Live(s) == servers[s].state = "serving"

\* C1: at most one HTTP listener started by the generator is live, and it is
\* the one self.server refers to.
C1_AtMostOneLiveListener ==
    /\ Cardinality({s \in DOMAIN servers : Live(s)}) <= 1
    /\ \A s \in DOMAIN servers : Live(s) => server = s

\* C2: once stop_local_server() has returned after a start on port P, the
\* handle is None and a connection to localhost:P is refused.
C2_StopClosesPort ==
    /\ last.op = "stop_local_server" => server = NoServer
    /\ (server = NoServer /\ server_thread # NoThread)
           => ConnectResult(servers[server_thread].port) = "refused"

\* C3: stop_local_server() with no server running raises nothing, prints
\* nothing and changes neither server, server_thread, base_url nor the working
\* directory (nor any socket or file), so a second stop after a start leaves
\* the state of the first.
C3_StopIdempotent ==
    [][(last'.op = "stop_local_server" /\ server = NoServer)
          => /\ last'.raised = ""
             /\ last'.printed = ""
             /\ UNCHANGED <<cwd, base_url, server, server_thread, servers, fs>>]_vars

\* a second stop after one start has run as a no-op
C3_Witness ==
    /\ last.op = "stop_local_server"
    /\ last.printed = ""
    /\ server_thread # NoThread
    /\ server = NoServer

\* C4: a successful start_local_server(directory, port) sets base_url to
\* "http://localhost:<port>" and returns it; base_url names the port of the
\* most recent successful start (the one server_thread belongs to), also
\* after stop, and web_url results are built from it.
C4_BaseUrlTracksStart ==
    /\ server_thread # NoThread => base_url = LocalUrl(servers[server_thread].port)
    /\ (last.op = "start_local_server" /\ last.raised = "")
           => /\ last.value = Url("http", <<"localhost", ":", PortText[last.port]>>, <<"">>)
              /\ base_url = last.value
    /\ (last.op = "web_url" /\ server_thread # NoThread)
           => /\ last.value.scheme = "http"
              /\ last.value.netloc
                   = <<"localhost", ":", PortText[servers[server_thread].port]>>

\* web_url called after start on 8001 and stop, by a generator constructed
\* with a site's base_url
C4_Witness ==
    /\ last.op = "web_url"
    /\ server = NoServer
    /\ server_thread # NoThread
    /\ servers[server_thread].port = 8001
    /\ last.value.netloc = <<"localhost", ":", "8001">>

\* the directory os.chdir(directory) leads to, for a directory without dots
ChdirTarget(directory) ==
    IF isabs(directory) THEN directory
    ELSE IF directory = <<".">> THEN cwd
    ELSE cwd \o directory

\* C5: start_local_server(directory, port) makes `directory` the working
\* directory (whenever the directory exists), and stop_local_server() leaves
\* the working directory as it is.
C5_WorkingDirectory ==
    [][/\ (last'.op = "start_local_server" /\ last'.raised # "FileNotFoundError")
             => cwd' = ChdirTarget(last'.path)
       /\ last'.op = "stop_local_server" => cwd' = cwd]_vars

\* a running server was stopped and the working directory is still the one
\* start_local_server changed to
C5_Witness ==
    /\ last.op = "stop_local_server"
    /\ last.printed = "Local server stopped"
    /\ cwd = <<"", "w", "images">>

\* the file a path without dots names when the call is made
FileAt(path) ==
    IF isabs(path) THEN path
    ELSE IF cwd = <<"", "">> THEN <<"">> \o path
    ELSE cwd \o path

\* C6: generate_all_urls(F) raises FileNotFoundError exactly when F does not
\* exist when called; otherwise it returns a mapping with exactly the keys
\* file_url, data_url and web_url, holding what the three formatters return.
C6_GenerateAllUrls ==
    last.op = "generate_all_urls"
        => /\ last.raised = "FileNotFoundError" <=> FileAt(last.path) \notin DOMAIN fs
           /\ FileAt(last.path) \in DOMAIN fs
                 => /\ last.raised = ""
                    /\ DOMAIN last.value = {"file_url", "data_url", "web_url"}
                    /\ last.value.file_url = file_url(last.path)
                    /\ last.value.data_url = data_url(last.path).value
                    /\ last.value.web_url = web_url(last.path, <<>>)

\* a.png exists at start-up, and is missing for the call made after
\* start_local_server changed the working directory
C6_Witness ==
    /\ last.op = "generate_all_urls"
    /\ last.path = <<"a.png">>
    /\ last.raised = "FileNotFoundError"
    /\ cwd = <<"", "w", "images">>

\* "file://" followed by an absolute path
IsFileUrl(url) == url.scheme = "file" /\ url.netloc = <<>> /\ isabs(url.path)

\* C8 as claimed: file_url(F) is "file://" with an absolute path, and no
\* step, start_local_server included, changes what file_url(F) returns.
C8_FileUrlStable ==
    [][\A F \in SomeImagePaths :
          /\ IsFileUrl(file_url(F)')
          /\ file_url(F)' = file_url(F)]_vars

\* C8 amended: file_url(F) is "file://" with an absolute path; for an
\* absolute F no step changes it; a relative F is resolved against the
\* working directory of the moment.
C8_FileUrlAbsolute ==
    [][\A F \in SomeImagePaths :
          /\ IsFileUrl(file_url(F)')
          /\ isabs(F) => file_url(F)' = file_url(F)
          /\ ~isabs(F) => file_url(F)'.path = cwd' \o F]_vars

\* file_url of an absolute path was called after the working directory changed
C8_Witness ==
    /\ last.op = "file_url"
    /\ isabs(last.path)
    /\ cwd # Home
    /\ last.value.path = last.path

\* C7: create_html_viewer(image_path, output_file) on a missing image_path
\* raises FileNotFoundError and changes nothing: no file is created or
\* overwritten, base_url and the server handle stay.  On an existing
\* image_path it writes the document to output_file, touches no other file
\* and returns the absolute path of output_file.
C7_CreateHtmlViewer ==
    [][last'.op = "create_html_viewer"
          => IF FileAt(last'.path) \notin DOMAIN fs
             THEN /\ last'.raised = "FileNotFoundError"
                  /\ DOMAIN fs' = DOMAIN fs
                  /\ \A p \in DOMAIN fs : fs'[p] = fs[p]
                  /\ UNCHANGED <<cwd, base_url, server, server_thread, servers>>
             ELSE /\ last'.raised = ""
                  /\ last'.value = FileAt(last'.aux)
                  /\ DOMAIN fs' = (DOMAIN fs) \cup {FileAt(last'.aux)}
                  /\ \A p \in (DOMAIN fs) \ {FileAt(last'.aux)} : fs'[p] = fs[p]
                  /\ fs'[FileAt(last'.aux)].title = Last(last'.path)
                  /\ fs'[FileAt(last'.aux)].img_src = data_url(last'.path).value
                  /\ fs'[FileAt(last'.aux)].file_copy = file_url(last'.path)
                  /\ fs'[FileAt(last'.aux)].web_copy = web_url(last'.path, <<>>)
                  /\ UNCHANGED <<cwd, base_url, server, server_thread, servers>>]_vars

\* the image is missing, the output file exists from an earlier call and a
\* server is running
C7_Witness ==
    /\ last.op = "create_html_viewer"
    /\ last.raised = "FileNotFoundError"
    /\ FileAt(last.aux) \in DOMAIN fs
    /\ server # NoServer

RECURSIVE DotFree(_, _)
\* segs with "." dropped and each ".." taking the segment before it away
DotFree(segs, done) ==
    IF segs = <<>> THEN done
    ELSE IF Head(segs) = "." THEN DotFree(Tail(segs), done)
    ELSE IF Head(segs) = ".."
         THEN DotFree(Tail(segs),
                      IF done = <<>> THEN <<>> ELSE SubSeq(done, 1, Len(done) - 1))
    ELSE DotFree(Tail(segs), Append(done, Head(segs)))

\* url B taken as a directory, with the relative path rel joined onto it
Joined(B, rel) ==
    Url(B.scheme, B.netloc, <<"">> \o DotFree(SelectSeq(B.path, NonEmpty) \o rel, <<>>))

\* the path of file F relative to directory D
RelativeTo(F, D) ==
    LET f == SelectSeq(FileAt(F), NonEmpty)
        d == SelectSeq(FileAt(D), NonEmpty)
        k == CommonLen(f, d)
    IN  [i \in 1..(Len(d) - k) |-> ".."] \o SubSeq(f, k + 1, Len(f))

\* C9: web_url(F, relative_to_webroot=D) is base_url joined with the path of F
\* relative to D; with relative_to_webroot omitted or empty it is base_url
\* joined with the base name of F; whether F exists plays no part.  The
\* function of simple_demo joins the base name onto its default base_url.
C9_WebUrl ==
    /\ last.op = "web_url"
          => last.value = Joined(base_url,
                                 IF last.aux \in {<<>>, <<"">>}
                                 THEN <<Last(last.path)>>
                                 ELSE RelativeTo(last.path, last.aux))
    /\ last.op = "simple_demo.web_url"
          => last.value = Joined(DefaultBaseUrl, <<Last(last.path)>>)

\* base_url "http://x/" with its trailing slash, and a web root
C9_Witness ==
    /\ last.op = "web_url"
    /\ base_url = Url("http", <<"x">>, <<"", "">>)
    /\ last.path = JpgPath
    /\ last.aux = <<"", "w">>
    /\ last.value = Url("http", <<"x">>, <<"", "images", "photo.jpg">>)

\* the number a base64 character stands for
B64Index(c) == (CHOOSE i \in 1..64 : B64Alphabet[i] = c) - 1

RECURSIVE b64decode(_)
\* the bytes a padded base64 text stands for
b64decode(text) ==
    IF text = <<>> THEN <<>>
    ELSE LET a == B64Index(text[1])
             b == B64Index(text[2])
         IN  IF text[3] = "=" THEN <<a * 4 + b \div 16>>
             ELSE IF text[4] = "="
             THEN <<a * 4 + b \div 16, (b % 16) * 16 + B64Index(text[3]) \div 4>>
             ELSE <<a * 4 + b \div 16,
                    (b % 16) * 16 + B64Index(text[3]) \div 4,
                    (B64Index(text[3]) % 4) * 64 + B64Index(text[4])>>
                  \o b64decode(SubSeq(text, 5, Len(text)))

\* where the first "," of a text stands
FirstComma(text) == CHOOSE i \in 1..Len(text) :
                        text[i] = "," /\ \A j \in 1..(i - 1) : text[j] # ","

MimeTypes == (DOMAIN Chars) \ {"data:", ";base64,", "..."}

\* C10: for an existing file, data_url (the method and the function of
\* simple_demo) returns "data:<mime>;base64,<payload>" where <payload> is
\* made of base64 characters only, in groups of four, and decodes to exactly
\* the bytes of the file.
C10_DataUrlRoundTrip ==
    (last.op \in {"data_url", "simple_demo.data_url"} /\ last.raised = "")
        => LET text == last.value
               header == SubSeq(text, 1, FirstComma(text))
               payload == SubSeq(text, FirstComma(text) + 1, Len(text))
           IN  /\ \E m \in MimeTypes : header = Chars["data:"] \o Chars[m] \o Chars[";base64,"]
               /\ Len(payload) % 4 = 0
               /\ \A i \in 1..Len(payload) :
                      \/ \E k \in 1..64 : B64Alphabet[k] = payload[i]
                      \/ payload[i] = "=" /\ i > Len(payload) - 2
               /\ b64decode(payload) = fs[FileAt(last.path)]

\* simple_demo's data_url on a file of two bytes, which do not fill a group
C10_Witness ==
    /\ last.op = "simple_demo.data_url"
    /\ last.raised = ""
    /\ last.path = <<"a.png">>
    /\ Len(fs[PngPath]) = 2

\* the type between "data:" and ";base64," of a data URL
MimeOf(text) ==
    CHOOSE m \in MimeTypes :
        SubSeq(text, 1, FirstComma(text)) = Chars["data:"] \o Chars[m] \o Chars[";base64,"]

\* what the extension table holds for the names with an image extension
ImageTypeOf ==
    ("a.png" :> "image/png") @@ ("photo.jpg" :> "image/jpeg") @@
    ("missing.gif" :> "image/gif") @@ ("drawing.svg" :> "image/svg+xml")

\* the names whose extension the table does not hold
LookupFails == {".svg", "notes.zz"}

\* C11: the MIME type in data_url(F) is the table's type when F has a
\* recognized image extension.  Otherwise the method gives image/jpeg (the
\* lookup failed, or gave a type that is not an image type), and the function
\* of simple_demo, when the lookup fails, gives image/svg+xml for a path that
\* ends in .svg and application/octet-stream for any other.
C11_MimeType ==
    (last.op \in {"data_url", "simple_demo.data_url"} /\ last.raised = "")
        => LET name == Last(last.path)
               mime == MimeOf(last.value)
           IN  IF name \in DOMAIN ImageTypeOf THEN mime = ImageTypeOf[name]
               ELSE IF last.op = "data_url" THEN mime = "image/jpeg"
               ELSE name \in LookupFails
                       => mime = IF name = ".svg" THEN "image/svg+xml"
                                 ELSE "application/octet-stream"

\* simple_demo's data_url on the file named ".svg", which has no extension
\* for the table and ends in .svg
C11_Witness ==
    /\ last.op = "simple_demo.data_url"
    /\ last.raised = ""
    /\ last.path = <<".svg">>
    /\ MimeOf(last.value) = "image/svg+xml"

\* a viewer document has just been written
Viewed == last.op \in {"create_html_viewer", "simple_demo.create_html_viewer"}
              /\ last.raised = ""

ViewedDoc == fs[last.value]

\* the URLs of the viewed image, by the variant that wrote the document
FullDataUrl ==
    IF last.op = "create_html_viewer" THEN data_url(last.path).value
    ELSE simple_data_url(last.path).value

ShownWebUrl ==
    IF last.op = "create_html_viewer" THEN web_url(last.path, <<>>)
    ELSE simple_web_url(last.path, DefaultBaseUrl)

\* the displayed text of the data URL without its last three characters
ShownPart == SubSeq(ViewedDoc.data_text, 1, Len(ViewedDoc.data_text) - 3)

Ellipsis == SubSeq(ViewedDoc.data_text, Len(ViewedDoc.data_text) - 2,
                   Len(ViewedDoc.data_text))

\* pre is the first characters of text, whole text included
IsPrefix(pre, text) == Len(pre) <= Len(text) /\ pre = SubSeq(text, 1, Len(pre))

\* what the copy action and the image get, and the two URLs shown whole
FullElsewhere ==
    /\ ViewedDoc.data_copy = FullDataUrl
    /\ ViewedDoc.img_src = FullDataUrl
    /\ ViewedDoc.file_text = file_url(last.path)
    /\ ViewedDoc.web_text = ShownWebUrl

\* C12 as stated: in the document of create_html_viewer for any existing
\* file, small ones included, the displayed data URL is a strict prefix of
\* the full data URL followed by an ellipsis; the copy action and the image
\* get the full data URL; the file URL and the web URL are shown whole.
C12_StrictPrefix ==
    Viewed => /\ Len(ViewedDoc.data_text) >= 3
              /\ Ellipsis = Chars["..."]
              /\ IsPrefix(ShownPart, FullDataUrl)
              /\ Len(ShownPart) < Len(FullDataUrl)
              /\ FullElsewhere

\* C12, amended: the displayed data URL is the first 100 characters of the
\* full data URL followed by an ellipsis: a strict prefix when the data URL is
\* longer than 100 characters, the whole data URL when it is not.  The copy
\* action and the image get the full data URL; the file URL and the web URL
\* are shown whole.
C12_DisplayTruncation ==
    Viewed => /\ Len(ViewedDoc.data_text) >= 3
              /\ Ellipsis = Chars["..."]
              /\ IsPrefix(ShownPart, FullDataUrl)
              /\ IF Len(FullDataUrl) > 100
                 THEN Len(ShownPart) = 100
                 ELSE ShownPart = FullDataUrl
              /\ FullElsewhere

\* the document of an image whose data URL is longer than 100 characters
C12_Witness ==
    /\ Viewed
    /\ last.op = "create_html_viewer"
    /\ Len(FullDataUrl) > 100
    /\ Len(ViewedDoc.data_text) = 103
    /\ ViewedDoc.data_copy # ShownPart

\* the copy arguments of the viewed document as the text between the quotes
\* of copyToClipboard('...'), and the text of the URL each one stands for
FileCopyText ==
    IF last.op = "create_html_viewer" THEN Str(ViewedDoc.file_copy)
    ELSE ViewedDoc.file_copy

WebCopyText == Str(ViewedDoc.web_copy)

DataCopyText == ViewedDoc.data_copy

\* position i of text is a backslash escape's second character
RECURSIVE Escaped(_, _)
Escaped(text, i) ==
    IF i = 1 THEN FALSE
    ELSE text[i - 1] = "\\" /\ ~Escaped(text, i - 1)

\* a ' that is not escaped ends the single-quoted script literal
EndsLiteral(text) == \E i \in 1..Len(text) : text[i] = "'" /\ ~Escaped(text, i)

\* a " ends the double-quoted attribute the text stands in
EndsAttribute(text) == \E i \in 1..Len(text) : text[i] = "\""

\* a < followed by / can end the title element
EndsElement(text) == \E i \in 1..(Len(text) - 1) : text[i] = "<" /\ text[i + 1] = "/"

RECURSIVE Denoted(_)
\* the string a script literal with this text denotes: a backslash goes and
\* the character after it stays
Denoted(text) ==
    IF \A i \in 1..Len(text) : text[i] # "\\" THEN text
    ELSE IF Head(text) = "\\"
         THEN IF Len(text) = 1 THEN <<>>
              ELSE <<text[2]>> \o Denoted(Tail(Tail(text)))
         ELSE <<Head(text)>> \o Denoted(Tail(text))

SafeCopy(text, url_text) ==
    /\ ~EndsLiteral(text)
    /\ ~EndsAttribute(text)
    /\ Denoted(text) = url_text

\* C13: every value create_html_viewer puts into a script or attribute
\* context is escaped for it.  For image names with ' " \ < or &, the text of
\* the file URL, web URL and data URL inside copyToClipboard('...') ends
\* neither the literal nor the onclick attribute and denotes the original
\* URL, and the base name ends neither the alt attribute nor the title.
C13_Escaped ==
    Viewed => /\ SafeCopy(FileCopyText, Str(file_url(last.path)))
              /\ SafeCopy(WebCopyText, Str(ShownWebUrl))
              /\ SafeCopy(DataCopyText, FullDataUrl)
              /\ ~EndsAttribute(Pieces(ViewedDoc.img_alt))
              /\ ~EndsElement(Pieces(ViewedDoc.title))

\* the step is a start_local_server whose bind failed
BindFailed == last'.op = "start_local_server" /\ last'.raised = "OSError"

\* the handle, the thread, the servers and their states, base_url and the
\* files are as before the step
GeneratorAsBefore ==
    /\ base_url' = base_url
    /\ server' = server
    /\ server_thread' = server_thread
    /\ servers' = servers
    /\ DOMAIN fs' = DOMAIN fs

\* C14 as stated: when start_local_server(directory, port) fails to bind, a
\* second start on the port of this generator's running server included, the
\* error reaches the caller and the state is as before the call: base_url,
\* server and server_thread unchanged, no new thread, the earlier server
\* still running, and the working directory not left changed to directory.
C14_NothingChanged ==
    [][/\ (last'.op = "start_local_server" /\ last'.raised # "FileNotFoundError"
              /\ PortBusy(last'.port)) => last'.raised = "OSError"
       /\ BindFailed => (GeneratorAsBefore /\ cwd' = cwd)]_vars

\* C14, amended: when the bind fails the error reaches the caller; base_url,
\* server and server_thread are unchanged, no new thread is started and the
\* earlier server keeps running; the working directory is left changed to
\* directory, os.chdir having run before the bind.
C14_BindFailure ==
    [][/\ (last'.op = "start_local_server" /\ last'.raised # "FileNotFoundError"
              /\ PortBusy(last'.port)) => last'.raised = "OSError"
       /\ BindFailed => (GeneratorAsBefore /\ cwd' = ChdirTarget(last'.path))]_vars

\* a second start on the port of the generator's own running server has
\* failed, and the working directory is no longer the start-up one
C14_Witness ==
    /\ last.op = "start_local_server"
    /\ last.raised = "OSError"
    /\ server # NoServer
    /\ servers[server].state = "serving"
    /\ servers[server].port = last.port
    /\ cwd # Home

====
